---- MODULE Spec2Model ----
(***************************************************************************)
(* Model of src/src/gene_resolver.py: the cached gene dictionary            *)
(* (_get_gene_dict), the resolution of query tokens (resolve_genes) and    *)
(* the construction of the identifier filter (build_var_value_filter).     *)
(*                                                                         *)
(* A Python str is a sequence of characters, a character a one-letter      *)
(* string ("eszett" stands for U+00DF).  A Python dict is the sequence of  *)
(* its <<key, value>> items in insertion order.  None is NoneVal.          *)
(***************************************************************************)
EXTENDS Integers, Sequences, FiniteSets, TLC

\* ------------------------------------------------------------------ bounds
MaxRows == 2
MaxQueries == 2
MaxIds == 3

\* ------------------------------------------------------------------ str
NoneVal == <<"None">>

UpperLetters == <<"A","B","C","D","E","F","G","H","I","J","K","L","M",
                  "N","O","P","Q","R","S","T","U","V","W","X","Y","Z">>
LowerLetters == <<"a","b","c","d","e","f","g","h","i","j","k","l","m",
                  "n","o","p","q","r","s","t","u","v","w","x","y","z">>
Digits == <<"0","1","2","3","4","5","6","7","8","9">>
Eszett == "eszett"

Range(s) == {s[i] : i \in DOMAIN s}

IndexOf(s, c) == CHOOSE i \in DOMAIN s : s[i] = c

\* ord(c): the code point of a character
Ord(c) ==
    IF c \in Range(UpperLetters) THEN 64 + IndexOf(UpperLetters, c)
    ELSE IF c \in Range(LowerLetters) THEN 96 + IndexOf(LowerLetters, c)
    ELSE IF c \in Range(Digits) THEN 47 + IndexOf(Digits, c)
    ELSE IF c = Eszett THEN 223
    ELSE IF c = "_" THEN 95
    ELSE IF c = "'" THEN 39
    ELSE IF c = "," THEN 44
    ELSE IF c = "." THEN 46
    ELSE IF c = "[" THEN 91
    ELSE IF c = "]" THEN 93
    ELSE IF c = "\t" THEN 9
    ELSE IF c = "\n" THEN 10
    ELSE 32

\* str.upper() of one character: the full case mapping, U+00DF -> "SS"
UpperChar(c) ==
    IF c \in Range(LowerLetters) THEN <<UpperLetters[IndexOf(LowerLetters, c)]>>
    ELSE IF c = Eszett THEN <<"S", "S">>
    ELSE <<c>>

\* str.lower() of one character
LowerChar(c) ==
    IF c \in Range(UpperLetters) THEN <<LowerLetters[IndexOf(UpperLetters, c)]>>
    ELSE <<c>>

RECURSIVE Upper(_)
Upper(s) == IF s = <<>> THEN <<>> ELSE UpperChar(Head(s)) \o Upper(Tail(s))

RECURSIVE Lower(_)
Lower(s) == IF s = <<>> THEN <<>> ELSE LowerChar(Head(s)) \o Lower(Tail(s))

IsSpace(c) == c \in {" ", "\t", "\n"}

RECURSIVE LStrip(_)
LStrip(s) == IF s # <<>> /\ IsSpace(Head(s)) THEN LStrip(Tail(s)) ELSE s

RECURSIVE RStrip(_)
RStrip(s) ==
    IF s # <<>> /\ IsSpace(s[Len(s)]) THEN RStrip(SubSeq(s, 1, Len(s) - 1)) ELSE s

\* str.strip()
Strip(s) == RStrip(LStrip(s))

\* str.replace(" ", "_")
RECURSIVE ReplaceSpace(_)
ReplaceSpace(s) ==
    IF s = <<>> THEN <<>>
    ELSE <<IF Head(s) = " " THEN "_" ELSE Head(s)>> \o ReplaceSpace(Tail(s))

\* \W or _ : anything but a letter or a digit
IsWordNoUnderscore(c) ==
    c \in Range(UpperLetters) \cup Range(LowerLetters) \cup Range(Digits) \cup {Eszett}

\* re.sub(r"[\W_]+", "", organism)
RECURSIVE SafeOrganism(_)
SafeOrganism(s) ==
    IF s = <<>> THEN <<>>
    ELSE (IF IsWordNoUnderscore(Head(s)) THEN <<Head(s)>> ELSE <<>>)
         \o SafeOrganism(Tail(s))

\* [A-Z] under re.IGNORECASE
IsAZ(c) == c \in Range(UpperLetters) \cup Range(LowerLetters)

\* \d
IsDigit(c) == c \in Range(Digits)

\* a literal letter under re.IGNORECASE
SameLetter(c, u) == c = u \/ (c \in Range(LowerLetters) /\ UpperChar(c) = <<u>>)

\* _ENSEMBL_PATTERN.match(s):  ^ENS[A-Z]*G\d+$  under re.IGNORECASE
EnsemblMatch(s) ==
    /\ Len(s) >= 5
    /\ SameLetter(s[1], "E") /\ SameLetter(s[2], "N") /\ SameLetter(s[3], "S")
    /\ \E k \in 4..(Len(s) - 1) :
          /\ \A i \in 4..(k - 1) : IsAZ(s[i])
          /\ SameLetter(s[k], "G")
          /\ \A i \in (k + 1)..Len(s) : IsDigit(s[i])

\* ------------------------------------------------------------------ dict
EmptyDict == <<>>

HasKey(d, k) == \E i \in DOMAIN d : d[i][1] = k

\* d.get(k, default)
Get(d, k, default) ==
    IF HasKey(d, k) THEN d[CHOOSE i \in DOMAIN d : d[i][1] = k][2] ELSE default

\* d[k] = v : an existing key keeps its place, a new one goes last
SetItem(d, k, v) ==
    IF HasKey(d, k)
    THEN [i \in DOMAIN d |-> IF d[i][1] = k THEN <<k, v>> ELSE d[i]]
    ELSE Append(d, <<k, v>>)

\* d.setdefault(k, []).append(v)
SetDefaultAppend(d, k, v) == SetItem(d, k, Append(Get(d, k, <<>>), v))

\* GeneDict()
EmptyGeneDict ==
    [name_to_ids |-> EmptyDict, id_to_name |-> EmptyDict,
     id_to_feature_type |-> EmptyDict]

\* ------------------------------------------------------------------ pickle
\* pickle.dump(gd, fh): the stream of pickle operations written to the file
PickleDump(gd) ==
    << <<"GLOBAL", "gene_resolver", "GeneDict">>,
       <<"DICT", gd.name_to_ids>>,
       <<"DICT", gd.id_to_name>>,
       <<"DICT", gd.id_to_feature_type>>,
       <<"BUILD">>,
       <<"STOP">> >>

\* the dict a DICT operation rebuilds: its items are set one after the other
RECURSIVE LoadDict(_, _)
LoadDict(items, d) ==
    IF items = <<>> THEN d
    ELSE LoadDict(Tail(items), SetItem(d, Head(items)[1], Head(items)[2]))

\* pickle.load(fh): the object, or the exception the stream raises
PickleLoad(ops) ==
    IF ops = <<>>
    THEN [obj |-> EmptyGeneDict, error |-> "EOFError"]
    ELSE IF ops[1][1] # "GLOBAL"
    THEN [obj |-> EmptyGeneDict, error |-> "UnpicklingError"]
    ELSE IF ops[1] # <<"GLOBAL", "gene_resolver", "GeneDict">>
    THEN [obj |-> EmptyGeneDict, error |-> "ModuleNotFoundError"]
    ELSE IF Len(ops) < 6 \/ ops[Len(ops)] # <<"STOP">>
    THEN [obj |-> EmptyGeneDict, error |-> "UnpicklingError"]
    ELSE [obj |-> [name_to_ids |-> LoadDict(ops[2][2], EmptyDict),
                   id_to_name |-> LoadDict(ops[3][2], EmptyDict),
                   id_to_feature_type |-> LoadDict(ops[4][2], EmptyDict)],
          error |-> ""]

\* a faulty variant: only the end of an empty file is caught
CaughtOnLoadEofOnly(error) == error = "EOFError"

\* except (pickle.UnpicklingError, EOFError)
CaughtOnLoad(error) == error \in {"UnpicklingError", "EOFError"}

\* ------------------------------------------------------------------ _get_gene_dict
\* cache_path: ".cache/" is the same for every file and left out
CachePath(census_version, organism) ==
    census_version \o <<"_">> \o SafeOrganism(organism)
        \o <<"_", "g", "e", "n", "e", "_", "d", "i", "c", "t", ".", "p", "k", "l">>

\* census_organism = organism.replace(" ", "_").lower()
CensusOrganism(organism) == Lower(ReplaceSpace(organism))

\* one iteration of "for _, row in var_df.iterrows()"
AddRow(gd, row) ==
    [name_to_ids |-> SetDefaultAppend(gd.name_to_ids, Upper(row.feature_name),
                                      row.feature_id),
     id_to_name |-> SetItem(gd.id_to_name, row.feature_id, row.feature_name),
     id_to_feature_type |->
         SetItem(gd.id_to_feature_type, row.feature_id, row.feature_type)]

\* the loop over the rows: a row whose feature_name is None raises at
\* name.upper(), and gd keeps the rows added before it
RECURSIVE BuildRows(_, _)
BuildRows(rows, gd) ==
    IF rows = <<>> THEN [gd |-> gd, error |-> ""]
    ELSE IF Head(rows).feature_name = NoneVal
    THEN [gd |-> gd, error |-> "AttributeError"]
    ELSE BuildRows(Tail(rows), AddRow(gd, Head(rows)))

\* a faulty variant: the dictionary is persisted before the rows are added to it
PersistBeforeBuild(files, path, gd, fs) ==
    IF fs = "ok" THEN SetItem(files, path, PickleDump(EmptyGeneDict))
    ELSE IF fs = "dump_fail"
    THEN SetItem(files, path, SubSeq(PickleDump(EmptyGeneDict), 1, 2))
    ELSE files

\* what "with open(cache_path, 'wb') as fh: pickle.dump(gd, fh)" leaves on
\* disk: fs = "ok" the whole stream, "open_fail" the disk as it was (open
\* raised), "dump_fail" a file cut short (the write raised after open)
Persist(files, path, gd, fs) ==
    IF fs = "ok" THEN SetItem(files, path, PickleDump(gd))
    ELSE IF fs = "dump_fail" THEN SetItem(files, path, SubSeq(PickleDump(gd), 1, 2))
    ELSE files

\* the part of _get_gene_dict after the cache: fetch, build, persist.
\* net = "fail": open_soma raises.  io is the list of I/O calls made.
FetchAndBuild(files, remote, census_version, organism, net, fs, io) ==
    LET census_organism == CensusOrganism(organism)
        path == CachePath(census_version, organism)
    IN  IF net = "fail"
        THEN [gd |-> EmptyGeneDict, stage |-> "fetch_error", files |-> files,
              io |-> io \o <<"open_soma">>]
        ELSE IF ~HasKey(remote, census_organism)
        THEN [gd |-> EmptyGeneDict, stage |-> "missing", files |-> files,
              io |-> io \o <<"open_soma">>]
        ELSE LET b == BuildRows(Get(remote, census_organism, <<>>), EmptyGeneDict)
             IN  IF b.error # ""
                 THEN [gd |-> b.gd, stage |-> "build_error", files |-> files,
                       io |-> io \o <<"open_soma", "read">>]
                 ELSE [gd |-> b.gd,
                       stage |-> IF fs = "ok" THEN "built" ELSE "persist_error",
                       files |-> Persist(files, path, b.gd, fs),
                       io |-> io \o <<"open_soma", "read", "open_wb">>]

\* a faulty variant: the empty fallback dictionary is not kept, so that a
\* failed fetch is tried again by the next call
MemoizeUnlessEmpty(memo, key, gd) ==
    IF gd = EmptyGeneDict THEN memo ELSE SetItem(memo, key, gd)

\* lru_cache(maxsize=None) keeps what the call returned, whatever it is
Memoize(memo, key, gd) == SetItem(memo, key, gd)

\* _get_gene_dict(census_version, organism) under lru_cache: the value
\* returned (ret = <<gd>>) or the exception raised, the memo and the files
\* afterwards, and the I/O calls made
GetGeneDict(cache, files, remote, key, net, fs) ==
    LET census_version == key[1]
        organism == key[2]
        path == CachePath(census_version, organism)
        exists == HasKey(files, path)
        load == PickleLoad(Get(files, path, <<>>))
        ioCache == IF exists THEN <<"exists", "open_rb">> ELSE <<"exists">>
    IN  IF HasKey(cache, key)
        THEN [ret |-> <<Get(cache, key, EmptyGeneDict)>>, raised |-> "",
              stage |-> "memo", cache |-> cache, files |-> files, io |-> <<>>]
        ELSE IF exists /\ load.error = ""
        THEN [ret |-> <<load.obj>>, raised |-> "", stage |-> "cache",
              cache |-> Memoize(cache, key, load.obj), files |-> files,
              io |-> ioCache]
        ELSE IF exists /\ ~CaughtOnLoad(load.error)
        THEN [ret |-> <<>>, raised |-> load.error, stage |-> "raised",
              cache |-> cache, files |-> files, io |-> ioCache]
        ELSE LET f == FetchAndBuild(files, remote, census_version, organism,
                                     net, fs, ioCache)
             IN  [ret |-> <<f.gd>>, raised |-> "", stage |-> f.stage,
                  cache |-> Memoize(cache, key, f.gd), files |-> f.files,
                  io |-> f.io]

\* ------------------------------------------------------------------ resolve_genes
\* GeneMatch(query, ensembl_ids, canonical_name, is_ambiguous, feature_types)
GeneMatch(query, ensembl_ids, canonical_name, is_ambiguous, feature_types) ==
    [query |-> query, ensembl_ids |-> ensembl_ids,
     canonical_name |-> canonical_name, is_ambiguous |-> is_ambiguous,
     feature_types |-> feature_types]

\* a faulty variant: the feature types are collected in reverse order
FeatureTypesReversed(gd, ids) ==
    [i \in DOMAIN ids |-> Get(gd.id_to_feature_type, ids[Len(ids) + 1 - i], <<>>)]

\* ftypes = [gd.id_to_feature_type.get(i, "") for i in ids]
FeatureTypesOf(gd, ids) ==
    [i \in DOMAIN ids |-> Get(gd.id_to_feature_type, ids[i], <<>>)]

ProteinCoding ==
    <<"p","r","o","t","e","i","n","_","c","o","d","i","n","g">>

\* pc_ids = [i for i, ft in zip(ids, ftypes) if ft == "protein_coding"]
RECURSIVE PcIds(_, _)
PcIds(ids, ftypes) ==
    IF ids = <<>> \/ ftypes = <<>> THEN <<>>
    ELSE (IF Head(ftypes) = ProteinCoding THEN <<Head(ids)>> ELSE <<>>)
         \o PcIds(Tail(ids), Tail(ftypes))

\* a faulty variant: the passthrough looks up and returns the token as typed
PassthroughAsTyped(gd, query) ==
    LET name == Get(gd.id_to_name, query, NoneVal)
        ftype == Get(gd.id_to_feature_type, query, NoneVal)
    IN  IF name # NoneVal
        THEN GeneMatch(query, <<query>>, name, FALSE,
                       IF ftype # NoneVal /\ ftype # <<>> THEN <<ftype>> ELSE <<>>)
        ELSE GeneMatch(query, <<query>>, NoneVal, FALSE, <<>>)

\* the Ensembl ID passthrough branch
Passthrough(gd, query) ==
    LET ens_upper == Upper(query)
        name == Get(gd.id_to_name, ens_upper, NoneVal)
        ftype == Get(gd.id_to_feature_type, ens_upper, NoneVal)
    IN  IF name # NoneVal
        THEN GeneMatch(query, <<ens_upper>>, name, FALSE,
                       IF ftype # NoneVal /\ ftype # <<>> THEN <<ftype>> ELSE <<>>)
        ELSE GeneMatch(query, <<ens_upper>>, NoneVal, FALSE, <<>>)

\* a faulty variant: "if len(pc_ids) >= 1", the first protein_coding candidate wins
OnePcAtLeast(pc_ids) == Len(pc_ids) >= 1

\* if len(pc_ids) == 1
OnePc(pc_ids) == Len(pc_ids) = 1

\* the match of the protein_coding disambiguation
PcMatch(gd, query, pc_ids) ==
    GeneMatch(query, pc_ids, Get(gd.id_to_name, pc_ids[1], query), FALSE,
              <<ProteinCoding>>)

\* the match of a name with several candidates
AmbiguousMatch(gd, query, ids, ftypes, prefer_protein_coding) ==
    LET pc_ids == PcIds(ids, ftypes)
    IN  IF prefer_protein_coding /\ OnePc(pc_ids)
        THEN PcMatch(gd, query, pc_ids)
        ELSE GeneMatch(query, ids, Get(gd.id_to_name, ids[1], query), TRUE, ftypes)

\* norm = query.upper()
Norm(query) == Upper(query)

\* a faulty variant: the branch "if len(ids) == 1" is missing
NameLookupNoSingle(gd, query, prefer_protein_coding) ==
    LET ids == Get(gd.name_to_ids, Norm(query), <<>>)
        ftypes == FeatureTypesOf(gd, ids)
    IN  IF ids = <<>>
        THEN GeneMatch(query, <<>>, NoneVal, FALSE, <<>>)
        ELSE AmbiguousMatch(gd, query, ids, ftypes, prefer_protein_coding)

\* the name-based lookup branch
NameLookup(gd, query, prefer_protein_coding) ==
    LET ids == Get(gd.name_to_ids, Norm(query), <<>>)
        ftypes == FeatureTypesOf(gd, ids)
    IN  IF ids = <<>>
        THEN GeneMatch(query, <<>>, NoneVal, FALSE, <<>>)
        ELSE IF Len(ids) = 1
        THEN GeneMatch(query, ids, Get(gd.id_to_name, ids[1], query), FALSE, ftypes)
        ELSE AmbiguousMatch(gd, query, ids, ftypes, prefer_protein_coding)

\* query = raw.strip()
Query(raw) == Strip(raw)

\* the body of "for raw in gene_names": the match appended for one token
ResolveOne(gd, raw, prefer_protein_coding) ==
    LET query == Query(raw)
    IN  IF EnsemblMatch(query)
        THEN Passthrough(gd, query)
        ELSE NameLookup(gd, query, prefer_protein_coding)

\* a faulty variant: a token that resolves to nothing gets no match
RECURSIVE ResolveAllSkipping(_, _, _)
ResolveAllSkipping(gd, gene_names, prefer_protein_coding) ==
    IF gene_names = <<>> THEN <<>>
    ELSE LET m == ResolveOne(gd, Head(gene_names), prefer_protein_coding)
         IN  (IF m.ensembl_ids = <<>> THEN <<>> ELSE <<m>>)
             \o ResolveAllSkipping(gd, Tail(gene_names), prefer_protein_coding)

\* the loop of resolve_genes over gene_names
RECURSIVE ResolveAll(_, _, _)
ResolveAll(gd, gene_names, prefer_protein_coding) ==
    IF gene_names = <<>> THEN <<>>
    ELSE <<ResolveOne(gd, Head(gene_names), prefer_protein_coding)>>
         \o ResolveAll(gd, Tail(gene_names), prefer_protein_coding)

\* ------------------------------------------------------------------ build_var_value_filter
\* a < b for two str: by code point, a proper prefix first
RECURSIVE StrLess(_, _)
StrLess(a, b) ==
    IF b = <<>> THEN FALSE
    ELSE IF a = <<>> THEN TRUE
    ELSE IF Head(a) # Head(b) THEN Ord(Head(a)) < Ord(Head(b))
    ELSE StrLess(Tail(a), Tail(b))

\* set(ensembl_ids)
Distinct(ensembl_ids) == Range(ensembl_ids)

\* a faulty variant: sorted(S, reverse=True)
RECURSIVE SortedDescending(_)
SortedDescending(S) ==
    IF S = {} THEN <<>>
    ELSE LET most == CHOOSE x \in S : \A y \in S \ {x} : StrLess(y, x)
         IN  <<most>> \o SortedDescending(S \ {most})

\* sorted(S): the least element first
RECURSIVE Sorted(_)
Sorted(S) ==
    IF S = {} THEN <<>>
    ELSE LET least == CHOOSE x \in S : \A y \in S \ {x} : StrLess(x, y)
         IN  <<least>> \o Sorted(S \ {least})

\* f"'{eid}'"
Quoted(eid) == <<"'">> \o eid \o <<"'">>

\* ", ".join(f"'{eid}'" for eid in unique)
RECURSIVE JoinQuoted(_)
JoinQuoted(unique) ==
    IF unique = <<>> THEN <<>>
    ELSE IF Len(unique) = 1 THEN Quoted(unique[1])
    ELSE Quoted(Head(unique)) \o <<",", " ">> \o JoinQuoted(Tail(unique))

\* build_var_value_filter(ensembl_ids)
BuildVarValueFilter(ensembl_ids) ==
    LET unique == Sorted(Distinct(ensembl_ids))
    IN  IF unique = <<>> THEN <<>>
        ELSE <<"f","e","a","t","u","r","e","_","i","d"," ","i","n"," ","[">>
             \o JoinQuoted(unique) \o <<"]">>

\* ------------------------------------------------------------------ inputs
SeqsUpTo(S, n) == UNION {[1..m -> S] : m \in 0..n}

Enssg1 == <<"E","N","S","S","G","1">>
Ensg2 == <<"E","N","S","G","2">>
LncRNA == <<"l","n","c","R","N","A">>

\* the rows a var table is made of; a feature_name of None is a malformed row
TableRows ==
    [feature_id : {Enssg1, Ensg2},
     feature_name : {<<"A","b">>},
     feature_type : {ProteinCoding, LncRNA}]
    \cup {[feature_id |-> Ensg2, feature_name |-> NoneVal, feature_type |-> LncRNA]}

Tables == SeqsUpTo(TableRows, MaxRows)

\* the organism the census holds
HomoSapiens == <<"h","_","s">>

Version == <<"v">>

\* (census_version, organism): "h s" is the census's h_s, "hs" is not in the
\* census; both are cached in the file v_hs_gene_dict.pkl
Keys == {<<Version, <<"h"," ","s">> >>, <<Version, <<"h","s">> >>}

\* what the remote source does to a call, and the file system to a write
NetOutcomes == {"ok", "fail"}
FsOutcomes == {"ok", "open_fail", "dump_fail"}

\* query tokens
Tokens ==
    { <<"a","b">>,
      <<" ","A","B">>,
      Enssg1,
      <<"E","N","S","G","9">>,
      <<" ","e","n","s","s","g","1","\t">>,
      <<"E","N",Eszett,"G","1">> }

FilterIds ==
    { Enssg1, Ensg2, <<"E","N","S","G","1","2">>, <<"E","N","S","G","1">>,
      <<"e","n","s","g","1">> }

\* ------------------------------------------------------------------ state
VARIABLES
    census,   \* the remote source: census_data, organism -> rows of the var table
    files,    \* the directory .cache: cache_path -> pickle stream
    cache,    \* the lru_cache of _get_gene_dict in this process: key -> GeneDict
    built,    \* key -> the GeneDict the key built and persisted, its file intact since
    returned, \* key -> the GeneDict the first direct call of _get_gene_dict for
              \* the key returned in this process
    out,      \* the last call: its arguments and what it returned or raised
    procs     \* the processes inside a first call of _get_gene_dict, step by step

vars == <<census, files, cache, built, returned, out, procs>>

\* the processes whose first calls run side by side
Procs == {"p", "q"}

\* no process is inside a call
NoProcs == [p \in Procs |-> [pc |-> "idle"]]

Init ==
    /\ \E table \in Tables : census = << <<HomoSapiens, table>> >>
    /\ files = EmptyDict
    /\ cache = EmptyDict
    /\ built = EmptyDict
    /\ returned = EmptyDict
    /\ out = [op |-> "init"]
    /\ procs = NoProcs

\* built without the keys cached in the file path
Forget(d, path) ==
    SelectSeq(d, LAMBDA item : CachePath(item[1][1], item[1][2]) # path)

\* built after a call: a build that was persisted is recorded; a write that
\* failed half way leaves no intact file for any key of that path
BuiltAfter(key, r) ==
    IF r.stage = "built" THEN SetItem(built, key, r.ret[1])
    ELSE IF r.files # files THEN Forget(built, CachePath(key[1], key[2]))
    ELSE built

\* returned after a direct call of _get_gene_dict: the first dictionary a
\* key's call returns in this process is recorded; a call that raises returns
\* nothing
ReturnedAfter(key, r) ==
    IF r.raised = "" /\ ~HasKey(returned, key)
    THEN SetItem(returned, key, r.ret[1]) ELSE returned

\* a call of _get_gene_dict(census_version, organism)
Acquire(key, net, fs) ==
    LET r == GetGeneDict(cache, files, census, key, net, fs)
    IN  /\ cache' = r.cache
        /\ files' = r.files
        /\ built' = BuiltAfter(key, r)
        /\ returned' = ReturnedAfter(key, r)
        /\ out' = [op |-> "get", key |-> key, net |-> net, fs |-> fs,
                   hit |-> HasKey(cache, key),
                   existed |-> HasKey(files, CachePath(key[1], key[2])),
                   pre |-> Get(files, CachePath(key[1], key[2]), <<>>),
                   had |-> HasKey(built, key),
                   seen |-> HasKey(returned, key),
                   first |-> Get(returned, key, EmptyGeneDict),
                   was |-> Get(built, key, EmptyGeneDict),
                   stage |-> r.stage, ret |-> r.ret, raised |-> r.raised,
                   io |-> r.io]
        /\ UNCHANGED <<census, procs>>

\* a call of resolve_genes(gene_names, organism, census_version,
\* prefer_protein_coding); an exception of _get_gene_dict goes to the caller
Resolve(key, gene_names, prefer_protein_coding, net, fs) ==
    LET r == GetGeneDict(cache, files, census, key, net, fs)
    IN  /\ cache' = r.cache
        /\ files' = r.files
        /\ built' = BuiltAfter(key, r)
        /\ out' = [op |-> "resolve", key |-> key, gene_names |-> gene_names,
                   prefer_protein_coding |-> prefer_protein_coding,
                   gd |-> r.ret, raised |-> r.raised,
                   results |-> IF r.raised # "" THEN <<>>
                               ELSE ResolveAll(r.ret[1], gene_names,
                                               prefer_protein_coding)]
        /\ UNCHANGED <<census, returned, procs>>

\* a call of build_var_value_filter(ensembl_ids)
Filter(ensembl_ids) ==
    /\ out' = [op |-> "filter", ensembl_ids |-> ensembl_ids,
               result |-> BuildVarValueFilter(ensembl_ids)]
    /\ UNCHANGED <<census, files, cache, built, returned, procs>>

\* the process ends and a new one starts: the lru_cache is empty again
NewProcess ==
    /\ cache # EmptyDict
    /\ cache' = EmptyDict
    /\ returned' = EmptyDict
    /\ out' = [op |-> "start"]
    /\ UNCHANGED <<census, files, built, procs>>

\* what damage makes of a cache file: cut short, overwritten with other
\* bytes, or left by a program whose GeneDict lived in another module
Damaged(stream, how) ==
    IF how = "truncated" THEN SubSeq(stream, 1, Len(stream) - 1)
    ELSE IF how = "garbage" THEN << <<"?">> >>
    ELSE << <<"GLOBAL", "src.gene_resolver", "GeneDict">> >> \o Tail(stream)

\* a cache file is damaged outside the program
Damage(path, how) ==
    /\ HasKey(files, path)
    /\ PickleLoad(Get(files, path, <<>>)).error = ""
    /\ files' = SetItem(files, path, Damaged(Get(files, path, <<>>), how))
    /\ built' = Forget(built, path)
    /\ out' = [op |-> "damage"]
    /\ UNCHANGED <<census, cache, returned, procs>>

\* ------------------------------------------------------------------ two processes
\* a process entering _get_gene_dict(census_version, organism), its memo empty
StartProc(key) ==
    [pc |-> "exists", key |-> key, rd |-> <<>>, gd |-> EmptyGeneDict,
     todo |-> <<>>, ret |-> <<>>, raised |-> "", refetched |-> FALSE]

\* the cache file of the key a process is acquiring
PathOf(p) == CachePath(procs[p].key[1], procs[p].key[2])

\* the bytes of a file that were never written: a write past the end of a
\* file leaves zero bytes between the old end and the place written
Hole == <<"NUL", <<>> >>

\* fh.write at a position of a file: a file descriptor keeps its own
\* position, whatever another process does to the file meanwhile
WriteAt(stream, pos, op) ==
    [i \in 1..(IF pos > Len(stream) THEN pos ELSE Len(stream)) |->
        IF i = pos THEN op ELSE IF i <= Len(stream) THEN stream[i] ELSE Hole]

\* if os.path.exists(cache_path)
Exists(p) ==
    /\ procs[p].pc = "exists"
    /\ procs' = [procs EXCEPT ![p].pc =
                    IF HasKey(files, PathOf(p)) THEN "open_rb" ELSE "fetch"]
    /\ UNCHANGED <<census, files, cache, built, returned, out>>

\* with open(cache_path, "rb") as fh
OpenRb(p) ==
    /\ procs[p].pc = "open_rb"
    /\ procs' = [procs EXCEPT ![p].pc = "load", ![p].rd = <<>>]
    /\ UNCHANGED <<census, files, cache, built, returned, out>>

\* pickle.load(fh), one read at a time: the next operation of the file as it
\* is now; at STOP or at the end of the file the load returns the object or
\* raises, and an exception caught falls through to the fetch
LoadStep(p) ==
    LET file == Get(files, PathOf(p), <<>>)
        rd == procs[p].rd
        more == /\ Len(rd) < Len(file)
                /\ rd = <<>> \/ rd[Len(rd)] # <<"STOP">>
        load == PickleLoad(rd)
    IN  /\ procs[p].pc = "load"
        /\ procs' =
              IF more
              THEN [procs EXCEPT ![p].rd = Append(rd, file[Len(rd) + 1])]
              ELSE IF load.error = ""
              THEN [procs EXCEPT ![p].pc = "done", ![p].ret = <<load.obj>>]
              ELSE IF CaughtOnLoad(load.error)
              THEN [procs EXCEPT ![p].pc = "fetch", ![p].refetched = TRUE]
              ELSE [procs EXCEPT ![p].pc = "done", ![p].raised = load.error]
        /\ UNCHANGED <<census, files, cache, built, returned, out>>

\* open_soma, the read of the var table and the loop over its rows, the
\* remote source answering: a missing organism or a malformed row returns gd
\* as it is, without a write
Fetch(p) ==
    LET census_organism == CensusOrganism(procs[p].key[2])
        b == BuildRows(Get(census, census_organism, <<>>), EmptyGeneDict)
    IN  /\ procs[p].pc = "fetch"
        /\ procs' =
              IF ~HasKey(census, census_organism)
              THEN [procs EXCEPT ![p].pc = "done", ![p].ret = <<EmptyGeneDict>>]
              ELSE IF b.error # ""
              THEN [procs EXCEPT ![p].pc = "done", ![p].ret = <<b.gd>>]
              ELSE [procs EXCEPT ![p].pc = "open_wb", ![p].gd = b.gd]
        /\ UNCHANGED <<census, files, cache, built, returned, out>>

\* with open(cache_path, "wb") as fh: the file is created, or cut to nothing
OpenWb(p) ==
    /\ procs[p].pc = "open_wb"
    /\ files' = SetItem(files, PathOf(p), <<>>)
    /\ procs' = [procs EXCEPT ![p].pc = "dump", ![p].todo = PickleDump(procs[p].gd)]
    /\ UNCHANGED <<census, cache, built, returned, out>>

\* pickle.dump(gd, fh), one write at a time; after the last one the file is
\* closed and gd returned
DumpStep(p) ==
    LET todo == procs[p].todo
        pos == Len(PickleDump(procs[p].gd)) - Len(todo) + 1
    IN  /\ procs[p].pc = "dump"
        /\ files' = SetItem(files, PathOf(p),
                            WriteAt(Get(files, PathOf(p), <<>>), pos, Head(todo)))
        /\ procs' =
              IF Tail(todo) = <<>>
              THEN [procs EXCEPT ![p].pc = "done", ![p].todo = <<>>,
                                 ![p].ret = <<procs[p].gd>>]
              ELSE [procs EXCEPT ![p].todo = Tail(todo)]
        /\ UNCHANGED <<census, cache, built, returned, out>>

\* ------------------------------------------------------------------ specifications
\* the dictionary and its two caches: calls of _get_gene_dict, with the
\* failures of the remote source and of the file system, over process restarts
Next ==
    \/ \E key \in Keys, net \in NetOutcomes, fs \in FsOutcomes : Acquire(key, net, fs)
    \/ NewProcess
    \/ \E path \in {CachePath(k[1], k[2]) : k \in Keys},
          how \in {"truncated", "garbage", "stale"} : Damage(path, how)

Spec == Init /\ [][Next]_vars

\* resolution: the first call of resolve_genes in a process, the remote
\* source answering and the cache directory empty and writable
NextResolve ==
    \E key \in Keys, gene_names \in SeqsUpTo(Tokens, MaxQueries),
       prefer_protein_coding \in BOOLEAN :
       cache = EmptyDict /\ Resolve(key, gene_names, prefer_protein_coding, "ok", "ok")

SpecResolve == Init /\ [][NextResolve]_vars

\* the filter: calls of build_var_value_filter, the census left alone
InitFilter ==
    /\ census = << <<HomoSapiens, <<>> >> >>
    /\ files = EmptyDict
    /\ cache = EmptyDict
    /\ built = EmptyDict
    /\ returned = EmptyDict
    /\ out = [op |-> "init"]
    /\ procs = NoProcs

NextFilter == \E ensembl_ids \in SeqsUpTo(FilterIds, MaxIds) : Filter(ensembl_ids)

SpecFilter == InitFilter /\ [][NextFilter]_vars

\* the keys: calls of _get_gene_dict for one key or another over process
\* restarts, the remote source answering, the file system writable and the
\* cache files left alone
NextKeys ==
    \/ \E key \in Keys : Acquire(key, "ok", "ok")
    \/ NewProcess

SpecKeys == Init /\ [][NextKeys]_vars

\* the race: two processes make their first call for the same key side by
\* side, the cache directory empty, the remote source answering and the
\* same for both, the file system writable
InitRace ==
    /\ \E table \in Tables : census = << <<HomoSapiens, table>> >>
    /\ files = EmptyDict
    /\ cache = EmptyDict
    /\ built = EmptyDict
    /\ returned = EmptyDict
    /\ out = [op |-> "init"]
    /\ \E key \in Keys : procs = [p \in Procs |-> StartProc(key)]

NextRace ==
    \E p \in Procs :
        \/ Exists(p)
        \/ OpenRb(p)
        \/ LoadStep(p)
        \/ Fetch(p)
        \/ OpenWb(p)
        \/ DumpStep(p)

SpecRace == InitRace /\ [][NextRace]_vars

\* ------------------------------------------------------------------ properties
\* the last call was resolve_genes and it returned
Resolved == out.op = "resolve" /\ out.raised = ""

\* the dictionary the last resolve_genes worked on
Gd == out.gd[1]

\* the positions of the last resolve_genes's tokens and matches
Positions == DOMAIN out.gene_names

\* the candidates name_to_ids holds for a trimmed token
Candidates(gd, q) == Get(gd.name_to_ids, Upper(q), <<>>)

\* the dictionary's feature type of an identifier, "" when it has none
TypeOf(gd, id) == Get(gd.id_to_feature_type, id, <<>>)

\* the positions of the protein_coding candidates
PcPositions(gd, ids) == {j \in DOMAIN ids : TypeOf(gd, ids[j]) = ProteinCoding}

\* the i-th token is a symbol with two or more candidates
IsAmbiguousSymbol(i) ==
    /\ ~EnsemblMatch(Strip(out.gene_names[i]))
    /\ Len(Candidates(Gd, Strip(out.gene_names[i]))) >= 2

\* the match holds only the protein_coding candidate
IsPcMatch(m, ids) ==
    /\ ~m.is_ambiguous
    /\ Len(m.ensembl_ids) = 1
    /\ \E j \in PcPositions(Gd, ids) : m.ensembl_ids = <<ids[j]>>
    /\ m.canonical_name = Get(Gd.id_to_name, m.ensembl_ids[1], NoneVal)
    /\ m.feature_types = <<ProteinCoding>>

\* the match holds every candidate
IsAllCandidatesMatch(m, ids) ==
    /\ m.is_ambiguous
    /\ m.ensembl_ids = ids
    /\ m.canonical_name = Get(Gd.id_to_name, ids[1], NoneVal)
    /\ m.feature_types = [j \in DOMAIN ids |-> TypeOf(Gd, ids[j])]

\* C1: for a symbol with two or more candidates, resolve_genes returns the
\* non-ambiguous match of the one protein_coding candidate if and only if
\* prefer_protein_coding is set and exactly one candidate is protein_coding;
\* in every other case it returns all candidates in their order, the
\* canonical name of the first, is_ambiguous = true and all feature types.
C1_Disambiguation ==
    Resolved =>
        \A i \in Positions :
            IsAmbiguousSymbol(i) =>
                LET ids == Candidates(Gd, Strip(out.gene_names[i]))
                    m == out.results[i]
                    one == out.prefer_protein_coding
                           /\ Cardinality(PcPositions(Gd, ids)) = 1
                IN  /\ IsPcMatch(m, ids) <=> one
                    /\ ~one => IsAllCandidatesMatch(m, ids)

\* C1 witness: a symbol with a protein_coding and an lncRNA candidate was
\* resolved with the preference set, to the protein_coding one alone
C1_Witness ==
    /\ Resolved
    /\ out.prefer_protein_coding
    /\ \E i \in Positions :
          /\ IsAmbiguousSymbol(i)
          /\ Cardinality(PcPositions(Gd, Candidates(Gd, Strip(out.gene_names[i])))) = 1
          /\ out.results[i].ensembl_ids = <<Enssg1>>
          /\ ~out.results[i].is_ambiguous

\* C2: in every match resolve_genes returns, is_ambiguous = true implies
\* more than one resolved identifier and is_ambiguous = false at most one.
C2_AmbiguousIffSeveral ==
    Resolved =>
        \A i \in DOMAIN out.results :
            LET m == out.results[i]
            IN  /\ m.is_ambiguous => Len(m.ensembl_ids) > 1
                /\ ~m.is_ambiguous => Len(m.ensembl_ids) <= 1

\* C2 witness: a call returned an ambiguous match and a non-ambiguous one
C2_Witness ==
    /\ Resolved
    /\ \E i, j \in DOMAIN out.results :
          /\ out.results[i].is_ambiguous /\ Len(out.results[i].ensembl_ids) = 2
          /\ ~out.results[j].is_ambiguous /\ Len(out.results[j].ensembl_ids) = 1

\* C3 as stated: a token of the stable-identifier shape comes back unchanged
\* as the only resolved identifier, with its canonical name when the
\* dictionary has the identifier and none otherwise, never ambiguous.
C3_Original ==
    Resolved =>
        \A i \in Positions :
            LET q == Strip(out.gene_names[i])
                m == out.results[i]
            IN  EnsemblMatch(q) =>
                    /\ m.ensembl_ids = <<q>>
                    /\ m.canonical_name = Get(Gd.id_to_name, q, NoneVal)
                    /\ ~m.is_ambiguous

\* C3 amended: a token of the stable-identifier shape comes back trimmed and
\* uppercased as the only resolved identifier, with the canonical name the
\* dictionary has for the uppercased identifier and none when it has none;
\* the identifier list is never empty and the match never ambiguous.
C3_PassthroughUppercased ==
    Resolved =>
        \A i \in Positions :
            LET q == Strip(out.gene_names[i])
                m == out.results[i]
            IN  EnsemblMatch(q) =>
                    /\ m.ensembl_ids = <<Upper(q)>>
                    /\ m.canonical_name = Get(Gd.id_to_name, Upper(q), NoneVal)
                    /\ m.ensembl_ids # <<>>
                    /\ ~m.is_ambiguous

\* C3 witness: a lowercase identifier the dictionary knows was passed through
C3_Witness ==
    /\ Resolved
    /\ \E i \in Positions :
          /\ out.gene_names[i] = <<" ","e","n","s","s","g","1","\t">>
          /\ out.results[i].ensembl_ids = <<Enssg1>>
          /\ out.results[i].canonical_name = <<"A","b">>

\* the last call was _get_gene_dict
Acquired == out.op = "get"

\* the cache file of the last _get_gene_dict's key, as it is now
FileNow == Get(files, CachePath(out.key[1], out.key[2]), <<>>)

\* the rows the census holds for the last call's organism
RowsOf(key) == Get(census, CensusOrganism(key[2]), <<>>)

\* the organism of the key is in the census and every row is well formed
Buildable(key) ==
    /\ HasKey(census, CensusOrganism(key[2]))
    /\ \A i \in DOMAIN RowsOf(key) : RowsOf(key)[i].feature_name # NoneVal

\* the last _get_gene_dict went to the remote source and did not get a
\* dictionary built and persisted: organism missing, or an error in the
\* fetch, the build or the persistence
Failed ==
    /\ "open_soma" \in Range(out.io)
    /\ out.net = "fail" \/ ~Buildable(out.key) \/ out.fs # "ok"

\* C4 as stated: _get_gene_dict never raises, and when the organism is
\* missing or an error occurs in the fetch, the build or the persistence it
\* returns a dictionary whose three mappings are empty.
C4_Original ==
    Acquired =>
        /\ out.raised = ""
        /\ Failed => out.ret = <<EmptyGeneDict>>

\* the last _get_gene_dict found a cache file it could not deserialize
FoundCorrupt ==
    /\ Acquired /\ ~out.hit /\ out.existed
    /\ PickleLoad(out.pre).error # ""

\* C5 as stated: a cache file that cannot be deserialized, whatever the
\* failure, does not make _get_gene_dict raise: the call goes on to the
\* remote fetch, and a successful fetch returns the dictionary built from
\* the census and overwrites the cache file with it.
C5_Original ==
    FoundCorrupt =>
        /\ out.raised = ""
        /\ "open_soma" \in Range(out.io)
        /\ (out.net = "ok" /\ Buildable(out.key) /\ out.fs = "ok") =>
               /\ out.ret = <<BuildRows(RowsOf(out.key), EmptyGeneDict).gd>>
               /\ FileNow = PickleDump(out.ret[1])

\* the filter the claim describes for a set of identifiers: the ascending
\* enumeration of the set, each quoted, joined by ", "
Ascending(S) ==
    CHOOSE seq \in [1..Cardinality(S) -> S] :
        \A i, j \in 1..Cardinality(S) : i < j => StrLess(seq[i], seq[j])

RECURSIVE Flatten(_)
Flatten(parts) == IF parts = <<>> THEN <<>> ELSE Head(parts) \o Flatten(Tail(parts))

ExpectedFilter(S) ==
    IF S = {} THEN <<>>
    ELSE <<"f","e","a","t","u","r","e","_","i","d"," ","i","n"," ","[">>
         \o Flatten([i \in 1..Cardinality(S) |->
                        (IF i > 1 THEN <<",", " ">> ELSE <<>>)
                        \o <<"'">> \o Ascending(S)[i] \o <<"'">>])
         \o <<"]">>

\* C6: build_var_value_filter depends on the set of distinct identifiers
\* only: "" for no identifier, else "feature_id in [" + the distinct
\* identifiers in ascending lexical order, single-quoted, joined by ", " +
\* "]", whatever the order and the repetitions of the input.
C6_FilterOfSet ==
    out.op = "filter" => out.result = ExpectedFilter(Range(out.ensembl_ids))

\* C6 witness: an input with a repeated identifier, out of order
C6_Witness ==
    /\ out.op = "filter"
    /\ out.ensembl_ids = <<Ensg2, <<"E","N","S","G","1","2">>, Ensg2>>
    /\ out.result # <<>>

\* the feature types of a match are those of its identifiers, one for one
Parallel(m) ==
    /\ Len(m.feature_types) = Len(m.ensembl_ids)
    /\ \A k \in DOMAIN m.ensembl_ids : m.feature_types[k] = TypeOf(Gd, m.ensembl_ids[k])

\* C7 as stated: in every match the feature types are parallel to the
\* resolved identifiers, in every branch.
C7_Original == Resolved => \A i \in Positions : Parallel(out.results[i])

\* C7 amended: the feature types are parallel to the resolved identifiers
\* (an identifier without a feature type counting as "") in every branch
\* but the passthrough of an identifier that the dictionary does not know or
\* knows with an empty feature type: there the match holds the one
\* identifier and no feature type.
C7_ParallelButUnknown ==
    Resolved =>
        \A i \in Positions :
            LET q == Strip(out.gene_names[i])
                m == out.results[i]
            IN  IF /\ EnsemblMatch(q)
                   /\ \/ ~HasKey(Gd.id_to_name, Upper(q))
                      \/ TypeOf(Gd, Upper(q)) = <<>>
                THEN Len(m.ensembl_ids) = 1 /\ m.feature_types = <<>>
                ELSE Parallel(m)

\* C7 witness: a call returned the two candidates of a symbol with their two
\* different feature types, and an unknown identifier with none
C7_Witness ==
    /\ Resolved
    /\ \E i, j \in Positions :
          /\ out.results[i].ensembl_ids = <<Ensg2, Enssg1>>
          /\ out.results[i].feature_types = <<LncRNA, ProteinCoding>>
          /\ EnsemblMatch(Strip(out.gene_names[j]))
          /\ out.results[j].ensembl_ids # <<>>
          /\ out.results[j].feature_types = <<>>

\* what a match says besides the query
Answer(m) == <<m.ensembl_ids, m.canonical_name, m.is_ambiguous, m.feature_types>>

\* C8 as stated: two tokens that are equal after trimming and uppercasing
\* get matches with the same identifiers, canonical name, is_ambiguous and
\* feature types.
C8_Original ==
    Resolved =>
        \A i, j \in Positions :
            Upper(Strip(out.gene_names[i])) = Upper(Strip(out.gene_names[j])) =>
                Answer(out.results[i]) = Answer(out.results[j])

\* C9: resolve_genes returns one match per token, in the order of the
\* tokens: as many matches as tokens, the i-th with the i-th token trimmed
\* as its query.
C9_OnePerToken ==
    Resolved =>
        /\ Len(out.results) = Len(out.gene_names)
        /\ \A i \in Positions : out.results[i].query = Strip(out.gene_names[i])

\* C9 witness: two tokens, the first resolving to nothing and the second
\* ambiguous
C9_Witness ==
    /\ Resolved
    /\ Len(out.gene_names) = 2 /\ Len(out.results) = 2
    /\ out.results[1].ensembl_ids = <<>>
    /\ out.results[2].is_ambiguous
    /\ out.results[2].query # out.gene_names[2]

\* C10: once a build for a key has persisted its dictionary, an acquisition
\* of the key in a new process, the cache file intact, returns that
\* dictionary without contacting the remote source; and the cache file is
\* written only by an acquisition whose fetch and build succeeded.
C10_CacheRoundTrip ==
    Acquired =>
        /\ (out.had /\ ~out.hit) =>
               /\ out.raised = ""
               /\ out.ret = <<out.was>>
               /\ "open_soma" \notin Range(out.io)
        /\ (FileNow # out.pre
             \/ HasKey(files, CachePath(out.key[1], out.key[2])) # out.existed) =>
               out.net = "ok" /\ Buildable(out.key)

\* C10 witness: a dictionary with two candidates of a symbol came back from
\* the cache file in a new process
C10_Witness ==
    /\ Acquired /\ out.had /\ ~out.hit
    /\ out.ret = <<out.was>>
    /\ \E i \in DOMAIN out.was.name_to_ids : Len(out.was.name_to_ids[i][2]) = 2
    /\ Len(out.was.id_to_name) = 2

\* C11: within one process, once a call of _get_gene_dict for a key has
\* returned, every later call for the key returns the same dictionary with
\* no disk access and no remote fetch; the empty dictionary returned after a
\* failed fetch included, which is never tried again in the process.
C11_MemoForLife ==
    (Acquired /\ out.seen) =>
        /\ out.raised = ""
        /\ out.ret = <<out.first>>
        /\ out.io = <<>>

\* C11 witness: the first call of a key returned the empty dictionary after
\* open_soma failed, and a later call, the remote source answering again and
\* holding rows for the key, returned it again
C11_Witness ==
    /\ Acquired /\ out.seen
    /\ out.first = EmptyGeneDict
    /\ out.ret = <<EmptyGeneDict>>
    /\ out.net = "ok"
    /\ Buildable(out.key)
    /\ BuildRows(RowsOf(out.key), EmptyGeneDict).gd # EmptyGeneDict

\* the dictionary a call of the key returns when it runs alone, from start
\* to end, on an empty cache directory
Sequential(key) ==
    GetGeneDict(EmptyDict, EmptyDict, census, key, "ok", "ok")

\* both processes have left _get_gene_dict
BothDone == \A p \in Procs : procs[p].pc = "done"

\* C12: two processes make their first call of _get_gene_dict for the same
\* key side by side, the remote source answering and unchanging: however the
\* existence checks, reads, fetches, opens for writing and writes interleave,
\* both return the dictionary a call running alone returns, and when both
\* have finished the cache file holds that dictionary (where a call running
\* alone writes one).
C12_RaceHarmless ==
    BothDone =>
        \A p \in Procs :
            /\ procs[p].raised = ""
            /\ procs[p].ret = Sequential(procs[p].key).ret
            /\ Get(files, PathOf(p), <<>>)
                 = Get(Sequential(procs[p].key).files, PathOf(p), <<>>)

\* C12 witness: both have finished; one found the file the other was still
\* writing, failed to load it and fetched again, and the file in the end
\* holds the complete dictionary of a table with rows
C12_Witness ==
    /\ BothDone
    /\ \E p \in Procs :
          /\ procs[p].refetched
          /\ procs[p].ret[1] # EmptyGeneDict
          /\ Get(files, PathOf(p), <<>>) = PickleDump(procs[p].ret[1])

\* C13 as stated: the remote source unchanging and the cache directory
\* shared, the dictionary _get_gene_dict returns for a key in a fresh process
\* is the one the key alone determines, whichever other keys were acquired,
\* and their cache files written, before.
C13_Original ==
    [][(cache = EmptyDict /\ out'.op = "get") =>
           /\ out'.raised = ""
           /\ out'.ret = Sequential(out'.key).ret]_vars

====
